---- MODULE Spec2Model ----
(***************************************************************************)
(* A model of mcp_snowflake_server: the configuration resolution of        *)
(* __init__.py (load_connection_from_toml, parse_args, main) and the value *)
(* normalisation of serialization.py (_serialize_value, to_json).          *)
(*                                                                         *)
(* One behaviour is one invocation: from the idle state one of the entry   *)
(* points runs to completion on inputs drawn from small sets, and the      *)
(* state records its inputs, what it called and what it produced.          *)
(*                                                                         *)
(* Python values:                                                          *)
(*   str            a TLA+ string                                          *)
(*   Optional[str]  <<>> for None, <<s>> for the string s                  *)
(*   dict           a function from its keys to its values                 *)
(*   exception      [type |-> class name, msg |-> str(e)]                 *)
(***************************************************************************)
EXTENDS Integers, Sequences, FiniteSets, TLC

VARIABLES
    pc,                        \* "idle", or the entry point that has run
    environ,                   \* os.environ after dotenv.load_dotenv()
    unknown,                   \* the tokens parse_known_args() did not recognise
    server_args,               \* connections_file / connection_name of server_args
    toml_file_state,           \* what lies at the connections-file path
    connection_args_from_env,  \* main: the mapping taken from the environment
    inline_args,               \* parse_args: the connection_args it returns
    connection_args,           \* main: connection_args when main stops
    toml_calls,                \* the calls of load_connection_from_toml made
    server_calls,              \* the connection_args handed to server.main
    returned,                  \* <<v>> when the entry point returned v
    raised,                    \* <<e>> when the entry point raised e
    obj                        \* serialization: the value passed in

vars == <<pc, environ, unknown, server_args, toml_file_state,
          connection_args_from_env, inline_args, connection_args, toml_calls,
          server_calls, returned, raised, obj>>

\* ---------------------------------------------------------------- bounds

\* The longest sequence of unrecognised command-line tokens.
MaxTokens == 4

\* The largest number of items of a mapping handed to to_json.
MaxItems == 2

\* ------------------------------------------------------- Python helpers

None == <<>>

Some(s) == <<s>>

EmptyDict == <<>>

\* bool(x) of an Optional[str]: None and "" are falsy.
Truthy(o) == o # None /\ o[1] # ""

\* {**a, **b}
DictUnpack(a, b) ==
    [k \in (DOMAIN a) \cup (DOMAIN b) |-> IF k \in DOMAIN b THEN b[k] ELSE a[k]]

\* d[key] = value
DictSet(d, key, value) ==
    [k \in (DOMAIN d) \cup {key} |-> IF k = key THEN value ELSE d[k]]

Exception(type, msg) == [type |-> type, msg |-> msg]

\* ----------------------------------------------------------- parse_args

\* A faulty variant: one dash is taken for the marker.
StartsWithDash(key) == Len(key) >= 1 /\ SubSeq(key, 1, 1) = "-"

\* key.startswith("--")
StartsWithDashes(key) == Len(key) >= 2 /\ SubSeq(key, 1, 2) = "--"

\* key[2:]
RemoveDashes(key) == SubSeq(key, 3, Len(key))

\* One round of "for i in range(0, len(unknown), 2)", i counted from 1.
RECURSIVE PairLoop(_, _, _)
PairLoop(tokens, i, acc) ==
    IF i > Len(tokens) THEN acc
    ELSE IF i + 1 > Len(tokens) THEN acc
    ELSE LET key == tokens[i]
             value == tokens[i + 1]
         IN  IF StartsWithDashes(key)
             THEN PairLoop(tokens, i + 2, DictSet(acc, RemoveDashes(key), value))
             ELSE PairLoop(tokens, i + 2, acc)

\* A faulty variant: a flag that ends the tokens is kept, with an empty value.
ParseConnectionArgsKeepingLast(tokens) ==
    LET paired == PairLoop(tokens, 1, EmptyDict)
        last == tokens[Len(tokens)]
    IN  IF Len(tokens) % 2 = 1 /\ StartsWithDashes(last)
        THEN DictSet(paired, RemoveDashes(last), "")
        ELSE paired

\* The connection_args of parse_args() for the unrecognised tokens.
ParseConnectionArgs(tokens) == PairLoop(tokens, 1, EmptyDict)

\* ------------------------------------------- load_connection_from_toml

\* What open() and tomllib.load() find at a path.
FileMissing == [st |-> "missing"]

FileUnreadable == [st |-> "unreadable"]

FileMalformed == [st |-> "malformed"]

FileToml(data) == [st |-> "toml", data |-> data]

\* A value of the parsed document: a table (a dict) or a plain string.
TomlTable(items) == [cls |-> "dict", val |-> items]

TomlString(s) == [cls |-> "str", val |-> s]

Raise(e) == [raised |-> <<e>>, returned |-> <<>>]

Return(v) == [raised |-> <<>>, returned |-> <<v>>]

\* str(e): a KeyError shows the repr of its argument.
StrOfException(e) ==
    IF e.type = "KeyError" THEN "\"" \o e.msg \o "\"" ELSE e.msg

\* A faulty variant: the handlers in the other order, so that the general
\* one also takes the missing file.
LoadConnectionFromTomlGeneralFirst(state, toml_file, connection_name) ==
    IF state.st # "toml"
    THEN Raise(Exception("ValueError", "Invalid TOML file: " \o state.st))
    ELSE IF connection_name \in DOMAIN state.data
    THEN Return(state.data[connection_name])
    ELSE Raise(Exception("KeyError",
               "Connection '" \o connection_name \o "' not found in TOML file"))

LoadConnectionFromToml(state, toml_file, connection_name) ==
    IF state.st = "missing"
    THEN Raise(Exception("FileNotFoundError", "TOML file not found: " \o toml_file))
    ELSE IF state.st # "toml"
    THEN Raise(Exception("ValueError", "Invalid TOML file: " \o state.st))
    ELSE IF connection_name \in DOMAIN state.data
    THEN Return(state.data[connection_name])
    ELSE Raise(Exception("KeyError",
               "Connection '" \o connection_name \o "' not found in TOML file"))

\* ------------------------------------------------------------------ main

\* The parameter names of snowflake.connector's DEFAULT_CONFIGURATION that
\* the model follows.
DEFAULT_CONFIGURATION == {"database", "schema", "role"}

LowerCase == "abcdefghijklmnopqrstuvwxyz"

UpperCase == "ABCDEFGHIJKLMNOPQRSTUVWXYZ"

UpperChar(c) ==
    IF \E i \in 1..Len(LowerCase) : SubSeq(LowerCase, i, i) = c
    THEN LET i == CHOOSE j \in 1..Len(LowerCase) : SubSeq(LowerCase, j, j) = c
         IN  SubSeq(UpperCase, i, i)
    ELSE c

\* k.upper()
RECURSIVE Upper(_)
Upper(k) ==
    IF k = "" THEN "" ELSE UpperChar(SubSeq(k, 1, 1)) \o Upper(SubSeq(k, 2, Len(k)))

\* "SNOWFLAKE_" + k.upper(), for every parameter name.
EnvVarName == [k \in DEFAULT_CONFIGURATION |-> "SNOWFLAKE_" \o Upper(k)]

\* connection_args_from_env: os.getenv(name) is None exactly when unset.
CollectFromEnv(env) ==
    [k \in {n \in DEFAULT_CONFIGURATION : EnvVarName[n] \in DOMAIN env}
        |-> env[EnvVarName[k]]]

BothMessage ==
    "Both --connections-file and --connection-name must be provided together"

DatabaseMessage ==
    "You must provide the database as \"--database\" argument, \"SNOWFLAKE_DATABASE\" environment variable, or in the TOML file."

SchemaMessage ==
    "You must provide the schema as \"--schema\" argument, \"SNOWFLAKE_SCHEMA\" environment variable, or in the TOML file."

\* The outcome of a stretch of main: connection_args as it stands, the
\* exception raised if any, and the files loaded.
Outcome(args, exc, calls) ==
    [connection_args |-> args, raised |-> exc, toml_calls |-> calls]

\* A faulty variant: the command line over the file.
MergeWithTomlInlineLast(from_env, inline, toml) ==
    DictUnpack(DictUnpack(from_env, toml), inline)

\* {**connection_args_from_env, **connection_args, **toml_connection_args}
MergeWithToml(from_env, inline, toml) ==
    DictUnpack(DictUnpack(from_env, inline), toml)

\* {**connection_args_from_env, **connection_args}
MergeTraditional(from_env, inline) == DictUnpack(from_env, inline)

\* A faulty variant: a failed load falls back to the traditional method.
TryTomlFallingBack(from_env, inline, state, toml_file, connection_name) ==
    LET r == LoadConnectionFromToml(state, toml_file, connection_name)
        calls == << <<toml_file, connection_name>> >>
    IN  IF r.raised # <<>>
        THEN Outcome(MergeTraditional(from_env, inline), <<>>, calls)
        ELSE IF r.returned[1].cls # "dict"
        THEN Outcome(inline,
                 <<Exception("TypeError", "'str' object is not a mapping")>>, calls)
        ELSE Outcome(MergeWithToml(from_env, inline, r.returned[1].val), <<>>, calls)

\* The try statement: every exception load_connection_from_toml raises is
\* one the handler names; unpacking a value that is no table is a TypeError,
\* which it does not.
TryToml(from_env, inline, state, toml_file, connection_name) ==
    LET r == LoadConnectionFromToml(state, toml_file, connection_name)
        calls == << <<toml_file, connection_name>> >>
    IN  IF r.raised # <<>>
        THEN Outcome(inline,
                 <<Exception("ValueError", "Failed to load TOML configuration: "
                                 \o StrOfException(r.raised[1]))>>, calls)
        ELSE IF r.returned[1].cls # "dict"
        THEN Outcome(inline,
                 <<Exception("TypeError", "'str' object is not a mapping")>>, calls)
        ELSE Outcome(MergeWithToml(from_env, inline, r.returned[1].val), <<>>, calls)

\* A faulty variant: a lone option is not noticed.
PartialTomlRequestIgnored(sa) == FALSE

\* server_args.get("connections_file") or server_args.get("connection_name")
PartialTomlRequest(sa) ==
    Truthy(sa.connections_file) \/ Truthy(sa.connection_name)

\* A faulty variant: the file alone asks for the TOML configuration.
TomlRequestedByFile(sa) == Truthy(sa.connections_file)

\* server_args.get("connections_file") and server_args.get("connection_name")
TomlRequested(sa) ==
    Truthy(sa.connections_file) /\ Truthy(sa.connection_name)

\* server_args["connections_file"], server_args["connection_name"] as text.
OptionalText(o) == IF o = None THEN "" ELSE o[1]

\* The if / elif / else that settles connection_args.
ResolveConnectionArgs(from_env, inline, sa, state) ==
    IF TomlRequested(sa)
    THEN TryToml(from_env, inline, state,
                 OptionalText(sa.connections_file), OptionalText(sa.connection_name))
    ELSE IF PartialTomlRequest(sa)
    THEN Outcome(inline, <<Exception("ValueError", BothMessage)>>, <<>>)
    ELSE Outcome(MergeTraditional(from_env, inline), <<>>, <<>>)

\* A faulty variant: only the database is asked for.
CheckRequiredDatabaseOnly(args) ==
    IF "database" \notin DOMAIN args
    THEN <<Exception("AssertionError", DatabaseMessage)>>
    ELSE <<>>

\* The two assert statements.
CheckRequired(args) ==
    IF "database" \notin DOMAIN args
    THEN <<Exception("AssertionError", DatabaseMessage)>>
    ELSE IF "schema" \notin DOMAIN args
    THEN <<Exception("AssertionError", SchemaMessage)>>
    ELSE <<>>

\* main(), from the environment to the call of server.main.
MainOutcome(env, tokens, sa, state) ==
    LET from_env == CollectFromEnv(env)
        inline == ParseConnectionArgs(tokens)
        resolved == ResolveConnectionArgs(from_env, inline, sa, state)
        missing == CheckRequired(resolved.connection_args)
    IN  [connection_args_from_env |-> from_env,
         inline_args |-> inline,
         connection_args |-> resolved.connection_args,
         toml_calls |-> resolved.toml_calls,
         raised |-> IF resolved.raised # <<>> THEN resolved.raised ELSE missing,
         server_calls |-> IF resolved.raised = <<>> /\ missing = <<>>
                          THEN <<resolved.connection_args>> ELSE <<>>]

\* --------------------------------------------------------- serialization

\* Python values, by class.  A Decimal and a finite float are digits / 10^places
\* with a sign: a double is named by its shortest decimal form, which is
\* exact for the decimals of at most 15 significant digits the model draws.
PyNone == [cls |-> "NoneType"]

PyBool(b) == [cls |-> "bool", val |-> b]

PyInt(n) == [cls |-> "int", val |-> n]

PyStr(s) == [cls |-> "str", val |-> s]

PyDate(y, m, d) == [cls |-> "date", year |-> y, month |-> m, day |-> d]

\* A datetime.datetime, or the pandas Timestamp that derives from it; tz is
\* "" for a naive value and the UTC offset for an aware one.
PyDateTime(c, y, m, d, hh, mm, ss, tz) ==
    [cls |-> c, year |-> y, month |-> m, day |-> d,
     hour |-> hh, minute |-> mm, second |-> ss, tz |-> tz]

PyDecimal(neg, digits, places) ==
    [cls |-> "Decimal", neg |-> neg, digits |-> digits, places |-> places]

PyFloat(neg, digits, places) ==
    [cls |-> "float", nan |-> FALSE, neg |-> neg, digits |-> digits, places |-> places]

PyNaN == [cls |-> "float", nan |-> TRUE, neg |-> FALSE, digits |-> 0, places |-> 0]

\* The classes a class derives from, itself included.
Mro(c) ==
    CASE c = "Timestamp" -> {"Timestamp", "datetime", "date"}
      [] c = "datetime" -> {"datetime", "date"}
      [] c = "bool" -> {"bool", "int"}
      [] OTHER -> {c}

IsInstance(o, c) == c \in Mro(o.cls)

RECURSIVE Pow10(_)
Pow10(n) == IF n = 0 THEN 1 ELSE 10 * Pow10(n - 1)

\* The number n in at least w digits ("%0wd").
ZeroPad(n, w) ==
    LET t == ToString(n)
    IN  IF Len(t) >= w THEN t ELSE SubSeq("00000000", 1, w - Len(t)) \o t

\* obj.isoformat() of a date, a datetime or a Timestamp (no microseconds).
IsoFormat(o) ==
    LET day == ZeroPad(o.year, 4) \o "-" \o ZeroPad(o.month, 2) \o "-" \o ZeroPad(o.day, 2)
    IN  IF o.cls = "date" THEN day
        ELSE day \o "T" \o ZeroPad(o.hour, 2) \o ":" \o ZeroPad(o.minute, 2)
                 \o ":" \o ZeroPad(o.second, 2) \o o.tz

\* float(obj) of a Decimal: the double nearest to it, which drops the
\* trailing zeros of the fraction.
RECURSIVE FloatOfDecimal(_)
FloatOfDecimal(o) ==
    IF o.places > 0 /\ o.digits % 10 = 0
    THEN FloatOfDecimal(PyDecimal(o.neg, o.digits \div 10, o.places - 1))
    ELSE PyFloat(o.neg, o.digits, o.places)

\* math.isnan(obj)
IsNan(o) == o.nan

\* A faulty variant: NaN is left as it is.
SerializeValueKeepingNaN(o) ==
    IF IsInstance(o, "date") THEN PyStr(IsoFormat(o))
    ELSE IF IsInstance(o, "Timestamp") THEN PyStr(IsoFormat(o))
    ELSE IF IsInstance(o, "Decimal") THEN FloatOfDecimal(o)
    ELSE o

\* _serialize_value(obj)
SerializeValue(o) ==
    IF IsInstance(o, "date") THEN PyStr(IsoFormat(o))
    ELSE IF IsInstance(o, "Timestamp") THEN PyStr(IsoFormat(o))
    ELSE IF IsInstance(o, "Decimal") THEN FloatOfDecimal(o)
    ELSE IF IsInstance(o, "float") /\ IsNan(o) THEN PyNone
    ELSE o

\* json_serializer(obj)
JsonSerializer(o) == SerializeValue(o)

\* The classes json.dumps encodes by itself; for any other it calls default.
JsonNative(o) ==
    \E c \in {"str", "int", "float", "bool", "NoneType"} : IsInstance(o, c)

\* float.__repr__ of a finite float of the model's range (no exponent).
FloatRepr(o) ==
    (IF o.neg THEN "-" ELSE "")
    \o ToString(o.digits \div Pow10(o.places)) \o "."
    \o (IF o.places = 0 THEN "0" ELSE ZeroPad(o.digits % Pow10(o.places), o.places))

\* The text json.dumps writes for a value it encodes by itself; allow_nan is
\* left at its default, so a NaN is written as the bare word NaN.
JsonEncodeNative(o) ==
    CASE o.cls = "str" -> "\"" \o o.val \o "\""
      [] o.cls = "NoneType" -> "null"
      [] o.cls = "bool" -> IF o.val THEN "true" ELSE "false"
      [] o.cls = "int" -> ToString(o.val)
      [] o.cls = "float" -> IF o.nan THEN "NaN" ELSE FloatRepr(o)

\* The text of one leaf: default is asked only for what the encoder does not
\* know, and what it returns is encoded in turn (every value default returns
\* for a value of the model is one the encoder knows).
JsonEncode(o) ==
    IF JsonNative(o) THEN JsonEncodeNative(o) ELSE JsonEncodeNative(JsonSerializer(o))

\* to_json(data) for a flat dict, given as its items in insertion order; the
\* text is given as its lines (indent=2 puts every item on a line of its own).
ToJson(items) ==
    IF items = <<>> THEN <<"{}">>
    ELSE <<"{">>
         \o [i \in 1..Len(items) |->
                "  \"" \o items[i][1] \o "\": " \o JsonEncode(items[i][2])
                \o (IF i < Len(items) THEN "," ELSE "")]
         \o <<"}">>

\* ---------------------------------------------------------------- inputs

\* Every sequence over S of at most n tokens.
SeqsUpTo(S, n) == UNION {[1..m -> S] : m \in 0..n}

\* Every mapping that takes some of the keys, each to tag \o key.
TaggedDicts(keys, tag) == {[k \in K |-> tag \o k] : K \in SUBSET keys}

\* Unrecognised tokens as the pairing alone sees them.
ParseTokens == {"--warehouse", "--role", "--", "-r", "WH1"}

\* Unrecognised tokens of a command line given to main.
MainTokens == {"--database", "--schema", "v"}

\* Variables a process environment may hold for the scan to find.
EnvNames == {"SNOWFLAKE_DATABASE", "SNOWFLAKE_SCHEMA", "SNOWFLAKE_ROLE"}

\* Every environment also holds a variable the scan does not look for, named
\* like a parameter but without the prefix.
Environs ==
    {DictUnpack(e, [k \in {"DATABASE"} |-> "env:DATABASE"]) :
        e \in TaggedDicts(EnvNames, "env:")}

\* The other section of every document of the model.
ProdSection ==
    TomlTable([k \in {"database", "schema", "role"} |-> "prod:" \o k])

\* Parsed documents: the section prod, and dev as a table, as a plain
\* string, or not at all.
TomlDocuments ==
    {[n \in {"prod"} |-> ProdSection]}
    \cup {[n \in {"dev", "prod"} |-> IF n = "prod" THEN ProdSection ELSE dev] :
            dev \in {TomlString("dev")}
                    \cup {TomlTable(t) :
                            t \in TaggedDicts({"database", "schema", "role"}, "dev:")}}

FileStates ==
    {FileMissing, FileUnreadable, FileMalformed} \cup {FileToml(d) : d \in TomlDocuments}

OptionalTexts(S) == {None} \cup {Some(s) : s \in S}

ServerArgs ==
    [connections_file : OptionalTexts({"", "c.toml"}),
     connection_name : OptionalTexts({"", "dev"})]

NoServerArgs == [connections_file |-> None, connection_name |-> None]

\* Leaves of query results: the four kinds the normalisation names and
\* values of other kinds.
Leaves ==
    {PyDate(2024, 3, 5), PyDate(987, 12, 31),
     PyDateTime("datetime", 2024, 3, 5, 10, 7, 0, ""),
     PyDateTime("Timestamp", 2024, 3, 5, 23, 59, 58, "+00:00"),
     PyDecimal(FALSE, 15, 1), PyDecimal(FALSE, 314, 2),
     PyDecimal(FALSE, 150, 2), PyDecimal(TRUE, 2, 0),
     PyNaN, PyFloat(FALSE, 15, 1),
     PyInt(42), PyStr("x"), PyNone, PyBool(TRUE)}

\* Every flat dict of at most n items over the keys, as its items in order.
ItemSeqs(keys, n) ==
    {s \in SeqsUpTo(keys \X Leaves, n) :
        \A i, j \in 1..Len(s) : i # j => s[i][1] # s[j][1]}

\* ------------------------------------------------------------ behaviours

Init ==
    /\ pc = "idle"
    /\ environ = EmptyDict
    /\ unknown = <<>>
    /\ server_args = NoServerArgs
    /\ toml_file_state = FileMissing
    /\ connection_args_from_env = EmptyDict
    /\ inline_args = EmptyDict
    /\ connection_args = EmptyDict
    /\ toml_calls = <<>>
    /\ server_calls = <<>>
    /\ returned = <<>>
    /\ raised = <<>>
    /\ obj = <<>>

\* parse_args() on some unrecognised tokens.
CallParseArgs ==
    /\ pc = "idle"
    /\ \E tokens \in SeqsUpTo(ParseTokens, MaxTokens) :
        /\ unknown' = tokens
        /\ inline_args' = ParseConnectionArgs(tokens)
        /\ returned' = <<ParseConnectionArgs(tokens)>>
    /\ pc' = "parse_args"
    /\ UNCHANGED <<environ, server_args, toml_file_state, connection_args_from_env,
                   connection_args, toml_calls, server_calls, raised, obj>>

\* load_connection_from_toml(toml_file, connection_name) on some file.
CallLoadConnectionFromToml ==
    /\ pc = "idle"
    /\ \E state \in FileStates, name \in {"dev", "prod", "qa"} :
        LET r == LoadConnectionFromToml(state, "c.toml", name)
        IN  /\ toml_file_state' = state
            /\ server_args' =
                   [connections_file |-> Some("c.toml"), connection_name |-> Some(name)]
            /\ toml_calls' = << <<"c.toml", name>> >>
            /\ returned' = r.returned
            /\ raised' = r.raised
    /\ pc' = "load_connection_from_toml"
    /\ UNCHANGED <<environ, unknown, connection_args_from_env, inline_args,
                   connection_args, server_calls, obj>>

\* main() in some environment, on some command line, with some file at the
\* path the command line names (none where it names no path).
CallMain ==
    /\ pc = "idle"
    /\ \E env \in Environs, sa \in ServerArgs :
       \E state \in IF Truthy(sa.connections_file) THEN FileStates ELSE {FileMissing} :
       \E tokens \in SeqsUpTo(MainTokens, MaxTokens) :
        LET r == MainOutcome(env, tokens, sa, state)
        IN  /\ environ' = env
            /\ unknown' = tokens
            /\ server_args' = sa
            /\ toml_file_state' = state
            /\ connection_args_from_env' = r.connection_args_from_env
            /\ inline_args' = r.inline_args
            /\ connection_args' = r.connection_args
            /\ toml_calls' = r.toml_calls
            /\ server_calls' = r.server_calls
            /\ raised' = r.raised
    /\ pc' = "main"
    /\ UNCHANGED <<returned, obj>>

\* _serialize_value(obj) on some leaf.
CallSerializeValue ==
    /\ pc = "idle"
    /\ \E o \in Leaves :
        /\ obj' = o
        /\ returned' = <<SerializeValue(o)>>
    /\ pc' = "_serialize_value"
    /\ UNCHANGED <<environ, unknown, server_args, toml_file_state,
                   connection_args_from_env, inline_args, connection_args,
                   toml_calls, server_calls, raised>>

\* to_json(data) on some flat dict.
CallToJson ==
    /\ pc = "idle"
    /\ \E items \in ItemSeqs({"a", "b", "c"}, MaxItems) :
        /\ obj' = items
        /\ returned' = <<ToJson(items)>>
    /\ pc' = "to_json"
    /\ UNCHANGED <<environ, unknown, server_args, toml_file_state,
                   connection_args_from_env, inline_args, connection_args,
                   toml_calls, server_calls, raised>>

Next ==
    \/ CallParseArgs
    \/ CallLoadConnectionFromToml
    \/ CallMain
    \/ CallSerializeValue
    \/ CallToJson

Spec == Init /\ [][Next]_vars

\* ---------------------------------------------------------------- claims

\* What the claims about main speak of, read off the inputs of the run.
FileSupplied == Truthy(server_args.connections_file)

NameSupplied == Truthy(server_args.connection_name)

BothSupplied == FileSupplied /\ NameSupplied

NeitherSupplied == ~FileSupplied /\ ~NameSupplied

ExactlyOneSupplied == FileSupplied # NameSupplied

\* The file parses and holds an entry of the name asked for.
LoadSucceeds ==
    /\ toml_file_state.st = "toml"
    /\ server_args.connection_name[1] \in DOMAIN toml_file_state.data

\* That entry is a table.
SectionWellFormed ==
    toml_file_state.data[server_args.connection_name[1]].cls = "dict"

FileSection == toml_file_state.data[server_args.connection_name[1]].val

\* Resolution got as far as a merged mapping.
Merged == NeitherSupplied \/ (BothSupplied /\ LoadSucceeds /\ SectionWellFormed)

RaisedKind(type) == raised # <<>> /\ raised[1].type = type

ConfigurationKind == RaisedKind("ValueError") /\ raised[1].msg = BothMessage

MissingRequiredFieldKind ==
    RaisedKind("AssertionError") /\ raised[1].msg \in {DatabaseMessage, SchemaMessage}

\* C1: with a file and a name supplied and the section loaded, the
\* configuration main arrives at holds exactly the keys of the environment
\* mapping, the inline mapping and the file section, each with the value of
\* the file section if it has the key, else of the inline mapping if that has
\* it, else of the environment; with neither supplied it holds exactly the
\* keys of the environment and inline mappings, the inline value where both
\* have the key.
C1_LastWriteWinsUnion ==
    pc = "main" =>
        LET E == connection_args_from_env
            I == inline_args
            C == connection_args
        IN  /\ (BothSupplied /\ LoadSucceeds /\ SectionWellFormed) =>
                  LET F == FileSection
                  IN  /\ DOMAIN C = (DOMAIN E) \cup (DOMAIN I) \cup (DOMAIN F)
                      /\ \A k \in DOMAIN C :
                            C[k] = IF k \in DOMAIN F THEN F[k]
                                   ELSE IF k \in DOMAIN I THEN I[k] ELSE E[k]
            /\ NeitherSupplied =>
                  /\ DOMAIN C = (DOMAIN E) \cup (DOMAIN I)
                  /\ \A k \in DOMAIN C :
                        C[k] = IF k \in DOMAIN I THEN I[k] ELSE E[k]
            /\ \A i \in 1..Len(server_calls) : server_calls[i] = C

\* A run where environment, command line and file section all give the
\* database, each its own value, and the server is started.
C1_Witness ==
    /\ pc = "main"
    /\ BothSupplied /\ LoadSucceeds /\ SectionWellFormed
    /\ "database" \in (DOMAIN connection_args_from_env) \cap (DOMAIN inline_args)
                      \cap (DOMAIN FileSection)
    /\ "role" \in (DOMAIN connection_args_from_env) \ (DOMAIN FileSection)
    /\ Len(server_calls) = 1

\* C2: server.main is called only with a mapping that has both database and
\* schema; once the merged mapping exists, main raises the assertion error
\* when database, schema or both are missing from it and otherwise calls
\* server.main with it, whichever source gave the two and whatever else it
\* holds.
C2_RequiredFields ==
    pc = "main" =>
        LET C == connection_args
            complete == {"database", "schema"} \subseteq DOMAIN C
        IN  /\ \A i \in 1..Len(server_calls) :
                  {"database", "schema"} \subseteq DOMAIN server_calls[i]
            /\ (Merged /\ ~complete) =>
                  MissingRequiredFieldKind /\ server_calls = <<>>
            /\ (Merged /\ complete) => raised = <<>> /\ server_calls = <<C>>

\* A run whose merged mapping has the database, from the environment alone,
\* and no schema.
C2_Witness ==
    /\ pc = "main"
    /\ Merged
    /\ "database" \in DOMAIN connection_args
    /\ "database" \notin DOMAIN inline_args
    /\ "schema" \notin DOMAIN connection_args
    /\ MissingRequiredFieldKind
    /\ server_calls = <<>>

\* C3: main raises the "both must be provided together" error exactly when
\* one of connections file and connection name is supplied without the other.
C3_PartialRequestFails ==
    pc = "main" => (ConfigurationKind <=> ExactlyOneSupplied)

\* A run with a connection name and no connections file.
C3_Witness ==
    /\ pc = "main"
    /\ NameSupplied /\ server_args.connections_file = None
    /\ ConfigurationKind

\* C9: with both supplied and the load failing (no file, a file that does
\* not parse, no such section), main raises the error of the failed load and
\* server.main is not called, with no configuration at all.
C9_LoadFailureIsFatal ==
    (pc = "main" /\ BothSupplied /\ ~LoadSucceeds) =>
        /\ RaisedKind("ValueError")
        /\ raised[1].msg # BothMessage
        /\ server_calls = <<>>

\* A run where the section is missing from the file while environment and
\* command line together give database and schema.
C9_Witness ==
    /\ pc = "main"
    /\ BothSupplied
    /\ toml_file_state.st = "toml" /\ ~LoadSucceeds
    /\ {"database", "schema"} \subseteq
           (DOMAIN connection_args_from_env) \cup (DOMAIN inline_args)
    /\ "schema" \notin DOMAIN connection_args_from_env
    /\ raised # <<>>

\* C10: with exactly one of the two supplied, main raises the "both must be
\* provided together" error, whatever the environment and command line hold,
\* and loads no file; a file is loaded only when both are supplied.
C10_PartialCheckComesFirst ==
    pc = "main" =>
        /\ ExactlyOneSupplied =>
              ConfigurationKind /\ ~MissingRequiredFieldKind /\ toml_calls = <<>>
        /\ toml_calls # <<>> => BothSupplied

\* A run with a file and no name, an existing file at the path, and neither
\* database nor schema from environment or command line.
C10_Witness ==
    /\ pc = "main"
    /\ FileSupplied /\ ~NameSupplied
    /\ toml_file_state.st = "toml"
    /\ (DOMAIN connection_args_from_env) \cup (DOMAIN inline_args) = {}
    /\ ConfigurationKind
    /\ toml_calls = <<>>

\* The positions of the tokens at which the pairing looks for a flag: every
\* other one from the first, as long as a token follows.
KeyPositions == {i \in 1..(Len(unknown) - 1) : i % 2 = 1}

\* C5: every key of the mapping parse_args returns comes from a token that
\* begins with "--" and is that token with the marker taken off, so that a
\* token without the marker gives no key; its value is the token right after
\* that token, as written, whether or not it begins with "--" itself, and
\* when several tokens give the key, the one after the last of them; every
\* token with the marker at which the pairing looks for a flag gives its key.
C5_FlagsPairWithNextToken ==
    pc = "parse_args" =>
        LET r == returned[1]
            flagsOf(k) == {i \in KeyPositions : unknown[i] = "--" \o k}
        IN  /\ \A k \in DOMAIN r :
                  /\ flagsOf(k) # {}
                  /\ r[k] = unknown[(CHOOSE i \in flagsOf(k) :
                                        \A j \in flagsOf(k) : j <= i) + 1]
            /\ \A i \in KeyPositions :
                  LET t == unknown[i]
                  IN  (Len(t) >= 2 /\ SubSeq(t, 1, 2) = "--") =>
                          \E k \in DOMAIN r : t = "--" \o k

\* A run where a flag comes twice, first with a value that begins with "--",
\* and the mapping has the value given last.
C5_Witness ==
    /\ pc = "parse_args"
    /\ unknown = <<"--role", "--warehouse", "--role", "WH1">>
    /\ returned = <<[role |-> "WH1"]>>

\* C6 as stated: whenever the last token is "--" and a key (so that no value
\* follows it), parse_args raises nothing and the mapping is that of the
\* tokens without it.
C6_TrailingFlagDropped_AsStated ==
    (pc = "parse_args" /\ unknown # <<>>
        /\ Len(unknown[Len(unknown)]) >= 3
        /\ SubSeq(unknown[Len(unknown)], 1, 2) = "--") =>
        /\ raised = <<>>
        /\ returned = <<ParseConnectionArgs(SubSeq(unknown, 1, Len(unknown) - 1))>>

\* C6, amended: whenever the last token begins with "--" and stands where
\* the pairing looks for a flag (the tokens are odd in number, so that it is
\* not the value of the token before it), parse_args raises nothing and the
\* mapping is that of the tokens without it.
C6_TrailingFlagDropped ==
    (pc = "parse_args" /\ Len(unknown) % 2 = 1
        /\ Len(unknown[Len(unknown)]) >= 2
        /\ SubSeq(unknown[Len(unknown)], 1, 2) = "--") =>
        /\ raised = <<>>
        /\ returned = <<ParseConnectionArgs(SubSeq(unknown, 1, Len(unknown) - 1))>>

\* The run on --warehouse WH1 --role.
C6_Witness ==
    /\ pc = "parse_args"
    /\ unknown = <<"--warehouse", "WH1", "--role">>
    /\ returned = <<[warehouse |-> "WH1"]>>
    /\ raised = <<>>

DigitChars == "0123456789"

IsDigit(c) == \E i \in 1..Len(DigitChars) : SubSeq(DigitChars, i, i) = c

DigitValue(c) == (CHOOSE i \in 1..Len(DigitChars) : SubSeq(DigitChars, i, i) = c) - 1

AllDigits(t) == t # "" /\ \A i \in 1..Len(t) : IsDigit(SubSeq(t, i, i))

RECURSIVE NumberOf(_)
NumberOf(t) ==
    IF t = "" THEN 0
    ELSE 10 * NumberOf(SubSeq(t, 1, Len(t) - 1)) + DigitValue(SubSeq(t, Len(t), Len(t)))

\* The first position from `from` on where t has the character c, 0 if none.
IndexFrom(t, c, from) ==
    LET at == {i \in from..Len(t) : SubSeq(t, i, i) = c}
    IN  IF at = {} THEN 0 ELSE CHOOSE i \in at : \A j \in at : i <= j

\* t is n, written in exactly w digits.
IsField(t, w, n) == Len(t) = w /\ AllDigits(t) /\ NumberOf(t) = n

\* t is the ISO-8601 text of the date or timestamp o: YYYY-MM-DD, and for a
\* timestamp THH:MM:SS and its UTC offset after it.
IsIsoOf(t, o) ==
    /\ Len(t) >= 10
    /\ IsField(SubSeq(t, 1, 4), 4, o.year)
    /\ SubSeq(t, 5, 5) = "-"
    /\ IsField(SubSeq(t, 6, 7), 2, o.month)
    /\ SubSeq(t, 8, 8) = "-"
    /\ IsField(SubSeq(t, 9, 10), 2, o.day)
    /\ IF o.cls = "date" THEN Len(t) = 10
       ELSE /\ Len(t) >= 19
            /\ SubSeq(t, 11, 11) = "T"
            /\ IsField(SubSeq(t, 12, 13), 2, o.hour)
            /\ SubSeq(t, 14, 14) = ":"
            /\ IsField(SubSeq(t, 15, 16), 2, o.minute)
            /\ SubSeq(t, 17, 17) = ":"
            /\ IsField(SubSeq(t, 18, 19), 2, o.second)
            /\ SubSeq(t, 20, Len(t)) = o.tz

\* r is the normal form of the value o: the ISO-8601 string of a date or
\* timestamp, the float equal to a Decimal, None for a NaN, o itself for
\* anything else.
IsNormalForm(o, r) ==
    IF o.cls \in {"date", "datetime", "Timestamp"}
    THEN r.cls = "str" /\ IsIsoOf(r.val, o)
    ELSE IF o.cls = "Decimal"
    THEN /\ r.cls = "float"
         /\ ~r.nan
         /\ r.neg = o.neg
         /\ r.digits * Pow10(o.places) = o.digits * Pow10(r.places)
    ELSE IF o.cls = "float" /\ o.nan
    THEN r = PyNone
    ELSE r = o

\* C8: _serialize_value returns the ISO-8601 string of a date or timestamp,
\* the float equal to a Decimal, None for a float NaN and any other value as
\* it is: "2024-03-05" for the date 2024-03-05, 3.14 for Decimal("3.14"),
\* 42 for 42.
C8_NormalizeByKind ==
    pc = "_serialize_value" =>
        /\ IsNormalForm(obj, returned[1])
        /\ obj = PyDate(2024, 3, 5) => returned = <<PyStr("2024-03-05")>>
        /\ obj = PyDecimal(FALSE, 314, 2) => returned = <<PyFloat(FALSE, 314, 2)>>
        /\ obj = PyNaN => returned = <<PyNone>>
        /\ obj = PyInt(42) => returned = <<PyInt(42)>>

\* The run on a NaN.
C8_Witness ==
    /\ pc = "_serialize_value"
    /\ obj = PyNaN
    /\ returned = <<PyNone>>

\* A JSON scalar read back as Python reads it, <<>> if t is none: null,
\* true, false, a string without escapes, or a number in digits with at most
\* a sign and a fraction.
JsonParseScalar(t) ==
    LET neg == Len(t) >= 1 /\ SubSeq(t, 1, 1) = "-"
        body == IF neg THEN SubSeq(t, 2, Len(t)) ELSE t
        dot == IndexFrom(body, ".", 1)
        whole == SubSeq(body, 1, dot - 1)
        frac == SubSeq(body, dot + 1, Len(body))
    IN  IF t = "null" THEN <<PyNone>>
        ELSE IF t = "true" THEN <<PyBool(TRUE)>>
        ELSE IF t = "false" THEN <<PyBool(FALSE)>>
        ELSE IF /\ Len(t) >= 2
                /\ SubSeq(t, 1, 1) = "\""
                /\ IndexFrom(t, "\"", 2) = Len(t)
        THEN <<PyStr(SubSeq(t, 2, Len(t) - 1))>>
        ELSE IF dot = 0 /\ AllDigits(body)
        THEN <<PyInt(IF neg THEN 0 - NumberOf(body) ELSE NumberOf(body))>>
        ELSE IF dot > 0 /\ AllDigits(whole) /\ AllDigits(frac)
        THEN <<PyFloat(neg, NumberOf(whole \o frac), Len(frac))>>
        ELSE <<>>

\* One line of an object, `  "key": scalar` with a comma unless it is the
\* last, read back as <<key, value>>; <<>> if it is none.
JsonParseMember(line, last) ==
    LET end == IF last THEN Len(line) ELSE Len(line) - 1
        quote == IndexFrom(line, "\"", 4)
        value == JsonParseScalar(SubSeq(line, quote + 3, end))
    IN  IF /\ SubSeq(line, 1, 3) = "  \""
           /\ quote > 0
           /\ SubSeq(line, quote + 1, quote + 2) = ": "
           /\ last \/ SubSeq(line, Len(line), Len(line)) = ","
           /\ value # <<>>
        THEN << <<SubSeq(line, 4, quote - 1), value[1]>> >>
        ELSE <<>>

\* A text of lines read back as a flat JSON object: <<the mapping>>, or <<>>
\* if the text is not valid JSON.
JsonLoads(lines) ==
    LET n == Len(lines)
        member(i) == JsonParseMember(lines[i], i = n - 1)
    IN  IF lines = <<"{}">> THEN <<EmptyDict>>
        ELSE IF /\ n >= 3
                /\ lines[1] = "{"
                /\ lines[n] = "}"
                /\ \A i \in 2..(n - 1) : member(i) # <<>>
        THEN <<[k \in {member(i)[1][1] : i \in 2..(n - 1)} |->
                  member(CHOOSE i \in 2..(n - 1) : member(i)[1][1] = k)[1][2]]>>
        ELSE <<>>

\* C4: the text to_json returns is valid JSON and reads back as the mapping
\* of the same keys to the normal forms of the leaves: a number for a Decimal,
\* null for a NaN, the ISO-8601 string for a date or timestamp; the text for
\* {"a": Decimal("1.5"), "b": NaN} reads back as {"a": 1.5, "b": null}.
C4_ToJsonNormalizesLeaves ==
    pc = "to_json" =>
        LET loaded == JsonLoads(returned[1])
        IN  /\ loaded # <<>>
            /\ DOMAIN loaded[1] = {obj[i][1] : i \in 1..Len(obj)}
            /\ \A i \in 1..Len(obj) : IsNormalForm(obj[i][2], loaded[1][obj[i][1]])
            /\ obj = << <<"a", PyDecimal(FALSE, 15, 1)>>, <<"b", PyNaN>> >> =>
                  loaded = <<[a |-> PyFloat(FALSE, 15, 1), b |-> PyNone]>>

====
